---------------------------- MODULE Spec2Model ----------------------------
(***************************************************************************)
(* Model of the progressive agent-fee calculation of                       *)
(* src/src/AgentFeeCalculator.tsx: the component's state (serviceType,     *)
(* inputValue, unit, discount), the module-level tables TIERS and RATES,    *)
(* and the memoised calculationResult that is recomputed on every change   *)
(* of its dependencies.                                                    *)
(*                                                                         *)
(* Numbers.  A JavaScript number is modelled as a record                   *)
(*     [k |-> "fin" | "inf" | "ninf" | "nan", y |-> Int, m |-> 0..Micro-1] *)
(* whose finite value is y + m / Micro (y is the floor, so a negative      *)
(* value has a negative y and a non-negative m).  Arithmetic on finite     *)
(* values is exact decimal arithmetic: the rounding error of IEEE-754      *)
(* doubles (4000000 * (1.1 / 100) is 44000.00000000001 as a double) is not *)
(* modelled.  Infinity and NaN follow IEEE-754.                            *)
(*                                                                         *)
(* Strings.  The text of an input box is a sequence of one-character       *)
(* strings, so that parseFloat is a parser and not the identity.           *)
(***************************************************************************)
EXTENDS Integers, Sequences, FiniteSets, TLC

VARIABLES TIERS, RATES, serviceType, inputValue, unit, discount,
          calculationResult, loopExit

vars == <<TIERS, RATES, serviceType, inputValue, unit, discount,
          calculationResult, loopExit>>

---------------------------------------------------------------------------
(* JavaScript numbers *)

Micro == 1000 * 1000

Fin(n) == [k |-> "fin", y |-> n, m |-> 0]

FinMicro(yy, mm) == [k |-> "fin", y |-> yy, m |-> mm]

Infinity == [k |-> "inf", y |-> 0, m |-> 0]

NegInfinity == [k |-> "ninf", y |-> 0, m |-> 0]

NaN == [k |-> "nan", y |-> 0, m |-> 0]

isNaN(a) == a.k = "nan"

isFinite(a) == a.k = "fin"

Negate(a) ==
    CASE a.k = "nan" -> NaN
      [] a.k = "inf" -> NegInfinity
      [] a.k = "ninf" -> Infinity
      [] OTHER -> IF a.m = 0 THEN FinMicro(0 - a.y, 0)
                  ELSE FinMicro(0 - a.y - 1, Micro - a.m)

\* a < b on JavaScript numbers: false when either side is NaN
Lt(a, b) ==
    CASE isNaN(a) \/ isNaN(b) -> FALSE
      [] a.k = "ninf" -> b.k # "ninf"
      [] a.k = "inf" -> FALSE
      [] b.k = "inf" -> TRUE
      [] b.k = "ninf" -> FALSE
      [] OTHER -> \/ a.y < b.y
                  \/ a.y = b.y /\ a.m < b.m

\* a === b on JavaScript numbers: NaN equals nothing
NumEq(a, b) == ~isNaN(a) /\ ~isNaN(b) /\ a = b

Gt(a, b) == Lt(b, a)

Le(a, b) == Lt(a, b) \/ NumEq(a, b)

Ge(a, b) == Le(b, a)

Add(a, b) ==
    CASE isNaN(a) \/ isNaN(b) -> NaN
      [] a.k = "inf" -> IF b.k = "ninf" THEN NaN ELSE Infinity
      [] a.k = "ninf" -> IF b.k = "inf" THEN NaN ELSE NegInfinity
      [] b.k = "inf" -> Infinity
      [] b.k = "ninf" -> NegInfinity
      [] OTHER -> FinMicro(a.y + b.y + ((a.m + b.m) \div Micro),
                           (a.m + b.m) % Micro)

Sub(a, b) == Add(a, Negate(b))

MathMax(a, b) ==
    IF isNaN(a) \/ isNaN(b) THEN NaN ELSE IF Lt(a, b) THEN b ELSE a

MathMin(a, b) ==
    IF isNaN(a) \/ isNaN(b) THEN NaN ELSE IF Lt(b, a) THEN b ELSE a

Sign(a) ==
    CASE isNaN(a) -> 0
      [] Lt(a, Fin(0)) -> 0 - 1
      [] Gt(a, Fin(0)) -> 1
      [] OTHER -> 0

\* Finite products and quotients are computed on the digits of the value in
\* millionths, in base Base and least significant first, so that no
\* intermediate value leaves the range of the checker's integers.
Base == 10 * 100

Limbs(v, count) == [j \in 1..count |-> (v \div (Base ^ (j - 1))) % Base]

RECURSIVE MulLimbs(_, _, _)
MulLimbs(L, n, carry) ==
    IF L = <<>> THEN <<>>
    ELSE LET p == Head(L) * n + carry
         IN  <<p % Base>> \o MulLimbs(Tail(L), n, p \div Base)

\* the quotient by d, from the most significant digit down, rem carried in
RECURSIVE DivLimbs(_, _, _)
DivLimbs(L, d, rem) ==
    IF L = <<>> THEN <<>>
    ELSE LET cur == rem * Base + L[Len(L)]
         IN  Append(DivLimbs(SubSeq(L, 1, Len(L) - 1), d, cur % d), cur \div d)

RECURSIVE LimbsValue(_)
LimbsValue(L) == IF L = <<>> THEN 0 ELSE Head(L) + Base * LimbsValue(Tail(L))

Abs(a) == IF Lt(a, Fin(0)) THEN Negate(a) ELSE a

\* a * (n / d) by long multiplication and division, for a finite a and
\* integers n, d with d > 0; the result is cut to millionths
ScaleLong(a, n, d) ==
    LET mag  == Abs(a)
        L    == Limbs(mag.m, 2) \o Limbs(mag.y, 4) \o <<0, 0>>
        R    == DivLimbs(MulLimbs(L, IF n < 0 THEN 0 - n ELSE n, 0), d, 0)
        res  == FinMicro(LimbsValue(SubSeq(R, 3, Len(R))), LimbsValue(SubSeq(R, 1, 2)))
    IN  IF Lt(a, Fin(0)) # (n < 0) THEN Negate(res) ELSE res

\* a * (n / d) for a finite a: directly when a is whole and d divides a or n
\* (no intermediate value is then larger than the result), by ScaleLong otherwise
ScaleFin(a, n, d) ==
    CASE a.m = 0 /\ a.y % d = 0 -> Fin((a.y \div d) * n)
      [] a.m = 0 /\ n % d = 0 -> Fin(a.y * (n \div d))
      [] OTHER -> ScaleLong(a, n, d)

\* a * (b / d) on JavaScript numbers, b a whole number or not finite
Scale(a, b, d) ==
    CASE isNaN(a) \/ isNaN(b) -> NaN
      [] ~isFinite(a) \/ ~isFinite(b) ->
            LET s == Sign(a) * Sign(b)
            IN  IF s = 0 THEN NaN ELSE IF s > 0 THEN Infinity ELSE NegInfinity
      [] OTHER -> ScaleFin(a, b.y, d)

\* a * n for a whole number n
Times(a, n) == Scale(a, Fin(n), 1)

---------------------------------------------------------------------------
(* Strings and parseFloat *)

DigitChars == <<"0", "1", "2", "3", "4", "5", "6", "7", "8", "9">>

DigitValues == [c \in {DigitChars[i] : i \in 1..Len(DigitChars)} |->
                   (CHOOSE i \in 1..Len(DigitChars) : DigitChars[i] = c) - 1]

IsDigit(c) == c \in DOMAIN DigitValues

DigitValue(c) == DigitValues[c]

RECURSIVE Pow10(_)
Pow10(e) == IF e = 0 THEN 1 ELSE 10 * Pow10(e - 1)

\* the length of the longest prefix of s made of digits
RECURSIVE DigitRun(_)
DigitRun(s) ==
    IF s = <<>> \/ ~IsDigit(Head(s)) THEN 0 ELSE 1 + DigitRun(Tail(s))

RECURSIVE DigitsValue(_)
DigitsValue(s) ==
    IF s = <<>> THEN 0
    ELSE 10 * DigitsValue(SubSeq(s, 1, Len(s) - 1)) + DigitValue(s[Len(s)])

Drop(s, n) == SubSeq(s, n + 1, Len(s))

StartsWith(s, p) == Len(s) >= Len(p) /\ SubSeq(s, 1, Len(p)) = p

InfinityText == <<"I", "n", "f", "i", "n", "i", "t", "y">>

\* the largest decimal exponent of a finite double (Number.MAX_VALUE is
\* about 1.8e308): a mantissa of at least 1 with a larger exponent is Infinity
MaxExp10 == 308

\* The unsigned StrDecimalLiteral at the start of a text,
\*   Infinity | digits [. digits] [e [+|-] digits]
\* read left to right, one operator per part; NaN when the text starts with
\* none.  A literal that starts with "." is not recognised, and a fraction or
\* a negative exponent is kept to millionths.
ApplyExponent(mant, eNeg, exp) ==
    IF mant # Fin(0) /\ ~eNeg /\ exp > MaxExp10 /\ mant.y >= 1 THEN Infinity
    ELSE Scale(mant, Fin(IF eNeg THEN 1 ELSE Pow10(exp)),
                     IF eNeg THEN Pow10(exp) ELSE 1)

ParseExpDigits(mant, eNeg, rest, nExp) ==
    IF nExp = 0 \/ mant = Fin(0) THEN mant
    ELSE ApplyExponent(mant, eNeg, DigitsValue(SubSeq(rest, 1, nExp)))

HasSign(text) == text # <<>> /\ Head(text) \in {"+", "-"}

HasMinus(text) == text # <<>> /\ Head(text) = "-"

StripSign(text) == IF HasSign(text) THEN Tail(text) ELSE text

ParseExpSign(mant, rest) ==
    ParseExpDigits(mant, HasMinus(rest), StripSign(rest), DigitRun(StripSign(rest)))

ParseExponent(mant, rest) ==
    IF rest # <<>> /\ Head(rest) \in {"e", "E"} THEN ParseExpSign(mant, Tail(rest))
    ELSE mant

HasPoint(rest) == rest # <<>> /\ Head(rest) = "."

\* the digits after the point, in millionths
FractionValue(rest, nFrac) ==
    IF nFrac = 0 THEN 0
    ELSE DigitsValue(SubSeq(rest, 1, nFrac)) * Pow10(6 - nFrac)

ParseFracDigits(int, rest, nFrac) ==
    ParseExponent(FinMicro(int, FractionValue(rest, nFrac)), Drop(rest, nFrac))

ParseFraction(int, rest) ==
    ParseFracDigits(int, IF HasPoint(rest) THEN Tail(rest) ELSE rest,
                         IF HasPoint(rest) THEN DigitRun(Tail(rest)) ELSE 0)

ParseDigits(s, nInt) ==
    IF nInt = 0 THEN NaN
    ELSE ParseFraction(DigitsValue(SubSeq(s, 1, nInt)), Drop(s, nInt))

ParseUnsigned(s) ==
    IF StartsWith(s, InfinityText) THEN Infinity ELSE ParseDigits(s, DigitRun(s))

ApplySign(minus, a) == IF minus THEN Negate(a) ELSE a

\* parseFloat: an optional sign, then the longest numeric prefix; the rest of
\* the text is ignored
parseFloat(s) == ApplySign(HasMinus(s), ParseUnsigned(StripSign(s)))

\* the decimal numeral of a natural number
RECURSIVE Numeral(_)
Numeral(n) ==
    IF n < 10 THEN <<DigitChars[n + 1]>>
    ELSE Append(Numeral(n \div 10), DigitChars[(n % 10) + 1])

\* Number.prototype.toFixed(2) of a rate held in hundredths
toFixed2(h) ==
    Numeral(h \div 100) \o <<".", DigitChars[((h % 100) \div 10) + 1],
                                  DigitChars[(h % 10) + 1]>>

---------------------------------------------------------------------------
(* The tables.  A label is the source's label in Latin letters; a rate is   *)
(* the source's percentage in hundredths (1.50 is 150).                     *)

TIERS_INIT ==
    << [limit |-> Fin(1000000),    label |-> "100wanyuan yixia"],
       [limit |-> Fin(5000000),    label |-> "100-500wanyuan"],
       [limit |-> Fin(10000000),   label |-> "500-1000wanyuan"],
       [limit |-> Fin(50000000),   label |-> "1000-5000wanyuan"],
       [limit |-> Fin(100000000),  label |-> "5000wanyuan-1yiyuan"],
       [limit |-> Fin(1000000000), label |-> "1-10yiyuan"],
       [limit |-> Infinity,        label |-> "10yiyuan yishang"] >>

RATES_INIT ==
    [t \in {1, 2, 3} |->
        CASE t = 1 -> <<150, 110, 80, 50, 25, 5, 1>>
          [] t = 2 -> <<150, 80, 45, 25, 10, 5, 1>>
          [] t = 3 -> <<100, 70, 55, 35, 20, 5, 1>>]

ServiceTypes == {1, 2, 3}

InputUnits == {"yuan", "wanyuan"}

COMMON_DISCOUNTS == {<<"1", "0", "0">>, <<"9", "0">>, <<"8", "5">>, <<"8", "0">>}

---------------------------------------------------------------------------
(* calculationResult: the body of the useMemo callback *)

Null == [null |-> TRUE]

\* AmountRejected without its test for a negative value
AmountRejectedNaNOnly(rawValue) == isNaN(rawValue)

\* the guard that makes the callback return null
AmountRejected(rawValue) == isNaN(rawValue) \/ Lt(rawValue, Fin(0))

BidAmount(rawValue, u) ==
    IF u = "wanyuan" THEN Times(rawValue, 10000) ELSE rawValue

\* TierSpan without the subtraction of the previous limit
TierSpanFromZero(tier, previousLimit) == tier.limit

TierSpan(tier, previousLimit) == Sub(tier.limit, previousLimit)

AmountInTier(remainingAmount, tierSpan) ==
    MathMin(MathMax(Fin(0), remainingAmount), tierSpan)

\* amountInTier * rateDecimal, rateDecimal = ratePercent / 100
FeeForTier(amountInTier, ratePercent) ==
    Scale(amountInTier, Fin(ratePercent), 100 * 100)

\* AccumulateFee that overwrites the total instead of adding to it
AccumulateFeeOverwrite(originalTotalFee, feeForTier) == feeForTier

AccumulateFee(originalTotalFee, feeForTier) == Add(originalTotalFee, feeForTier)

BreakdownLine(tier, ratePercent, amountInTier, feeForTier) ==
    [tierLabel |-> tier.label,
     ratePercent |-> toFixed2(ratePercent) \o <<"%">>,
     amountInTier |-> amountInTier,
     feeForTier |-> feeForTier]

\* InTier that also takes a tier into which nothing falls
InTierOrEmpty(amountInTier) == Ge(amountInTier, Fin(0))

\* the if of the loop body: part of the amount falls into the tier
InTier(amountInTier) == Gt(amountInTier, Fin(0))

\* BreakHere that never leaves the loop
BreakHereNever(remainingAmount, i) == FALSE

\* the else-if of the loop body: leave the loop
BreakHere(remainingAmount, i) == Le(remainingAmount, Fin(0)) /\ i > 0

\* The locals of the callback when the for loop is entered with index i (from
\* 0, as in the source); the value is the locals when the loop is left, with
\* i the index it stopped at and broke telling whether by the break.
RECURSIVE TierLoop(_, _, _)
TierLoop(tiers, currentRates, st) ==
    IF ~(st.i < Len(tiers)) THEN st
    ELSE LET tier         == tiers[st.i + 1]
             ratePercent  == currentRates[st.i + 1]
             tierSpan     == TierSpan(tier, st.previousLimit)
             amountInTier == AmountInTier(st.remainingAmount, tierSpan)
             feeForTier   == FeeForTier(amountInTier, ratePercent)
         IN  IF InTier(amountInTier)
             THEN TierLoop(tiers, currentRates,
                    [i |-> st.i + 1,
                     remainingAmount |-> Sub(st.remainingAmount, amountInTier),
                     originalTotalFee |-> AccumulateFee(st.originalTotalFee, feeForTier),
                     breakdown |-> Append(st.breakdown,
                                     BreakdownLine(tier, ratePercent, amountInTier, feeForTier)),
                     previousLimit |-> tier.limit,
                     broke |-> FALSE])
             ELSE IF BreakHere(st.remainingAmount, st.i)
             THEN [st EXCEPT !.broke = TRUE]
             ELSE TierLoop(tiers, currentRates,
                    [st EXCEPT !.i = st.i + 1, !.previousLimit = tier.limit])

LoopStart(bidAmount) ==
    [i |-> 0, remainingAmount |-> bidAmount, originalTotalFee |-> Fin(0),
     breakdown |-> <<>>, previousLimit |-> Fin(0), broke |-> FALSE]

\* DiscountFallback without its test for a negative value
DiscountFallbackNaNOnly(discountRate) ==
    IF isNaN(discountRate) THEN Fin(100)
    ELSE discountRate

\* the fallback of the discount: 100 when it is NaN or negative
DiscountFallback(discountRate) ==
    IF isNaN(discountRate) \/ Lt(discountRate, Fin(0)) THEN Fin(100)
    ELSE discountRate

DiscountRate(disc) == DiscountFallback(parseFloat(disc))

DiscountedFee(originalTotalFee, discountRate) ==
    Scale(originalTotalFee, discountRate, 100)

\* what the callback returns, with the locals the loop was left with beside it
\* (exit is not part of the returned value)
Returned(bidAmount, atExit, discountRate) ==
    [result |->
        [originalTotalFee |-> atExit.originalTotalFee,
         discountedFee |-> DiscountedFee(atExit.originalTotalFee, discountRate),
         bidAmount |-> bidAmount,
         breakdown |-> atExit.breakdown,
         discountRate |-> discountRate],
     exit |-> atExit]

Accepted(tiers, currentRates, bidAmount, disc) ==
    Returned(bidAmount, TierLoop(tiers, currentRates, LoopStart(bidAmount)),
             DiscountRate(disc))

Parsed(tiers, currentRates, rawValue, u, disc) ==
    IF AmountRejected(rawValue) THEN [result |-> Null, exit |-> Null]
    ELSE Accepted(tiers, currentRates, BidAmount(rawValue, u), disc)

\* The callback of useMemo.
Calculate(tiers, rates, type, iv, u, disc) ==
    Parsed(tiers, rates[type], parseFloat(iv), u, disc)

---------------------------------------------------------------------------
(* What is typed into the two input boxes *)

\* how far around each boundary of TIERS the typed amounts go
Delta == 1

\* the largest amount in yuan the model computes with
MaxYuan == 2000000000

FiniteLimits == {TIERS_INIT[j].limit.y : j \in 1..(Len(TIERS_INIT) - 1)}

AmountNumbers ==
    {0, 1, 600, 6000000, 100000, 200000}
      \cup {l + d : l \in FiniteLimits, d \in (0 - Delta)..Delta}

AmountTexts ==
    {Numeral(n) : n \in AmountNumbers}
      \cup { <<>>,
             <<"a", "b", "c">>,
             <<"-", "1">>,
             <<"-", "0", ".", "5">>,
             <<"0", ".", "5">>,
             <<"6", "e", "2">>,
             <<"1", "e", "9", "9", "9">> }

DiscountTexts ==
    { <<>>,
      <<"a", "b", "c">>,
      <<"-", "5">>,
      <<"0">>,
      <<"1", "0", "0">>,
      <<"1", "5", "0">>,
      <<"1", "e", "9", "9", "9">> }

\* the typed amount, in yuan, is within the range the model computes with
InRange(iv, u) ==
    LET rawValue == parseFloat(iv)
        most     == IF u = "wanyuan" THEN MaxYuan \div 10000 ELSE MaxYuan
    IN  isFinite(rawValue) => (0 - most) <= rawValue.y /\ rawValue.y <= most

---------------------------------------------------------------------------
(* The component *)

\* the re-render after a change of state: useMemo runs the callback again
Recalc(type, iv, u, disc) ==
    LET c == Calculate(TIERS, RATES, type, iv, u, disc)
    IN  /\ calculationResult' = c.result
        /\ loopExit' = c.exit

Init ==
    /\ TIERS = TIERS_INIT
    /\ RATES = RATES_INIT
    /\ serviceType = 1
    /\ inputValue = <<>>
    /\ unit = "wanyuan"
    /\ discount = <<"1", "0", "0">>
    /\ calculationResult = Calculate(TIERS, RATES, serviceType, inputValue, unit, discount).result
    /\ loopExit = Calculate(TIERS, RATES, serviceType, inputValue, unit, discount).exit

setServiceType(type) ==
    /\ serviceType' = type
    /\ Recalc(type, inputValue, unit, discount)
    /\ UNCHANGED <<TIERS, RATES, inputValue, unit, discount>>

\* setInputValue whose calculation writes each span over the limit of its tier
setInputValueInPlace(text) ==
    /\ InRange(text, unit)
    /\ inputValue' = text
    /\ Recalc(serviceType, text, unit, discount)
    /\ TIERS' = [j \in DOMAIN TIERS |->
                    [TIERS[j] EXCEPT !.limit =
                        TierSpan(TIERS[j], IF j = 1 THEN Fin(0) ELSE TIERS[j - 1].limit)]]
    /\ UNCHANGED <<RATES, serviceType, unit, discount>>

setInputValue(text) ==
    /\ InRange(text, unit)
    /\ inputValue' = text
    /\ Recalc(serviceType, text, unit, discount)
    /\ UNCHANGED <<TIERS, RATES, serviceType, unit, discount>>

setUnit(u) ==
    /\ InRange(inputValue, u)
    /\ unit' = u
    /\ Recalc(serviceType, inputValue, u, discount)
    /\ UNCHANGED <<TIERS, RATES, serviceType, inputValue, discount>>

\* one of the preset discount buttons
pickDiscount(rate) ==
    /\ discount' = rate
    /\ Recalc(serviceType, inputValue, unit, rate)
    /\ UNCHANGED <<TIERS, RATES, serviceType, inputValue, unit>>

\* the custom discount box
setDiscount(text) ==
    /\ discount' = text
    /\ Recalc(serviceType, inputValue, unit, text)
    /\ UNCHANGED <<TIERS, RATES, serviceType, inputValue, unit>>

Next ==
    \/ \E type \in ServiceTypes : setServiceType(type)
    \/ \E text \in AmountTexts : setInputValue(text)
    \/ \E u \in InputUnits : setUnit(u)
    \/ \E rate \in COMMON_DISCOUNTS : pickDiscount(rate)
    \/ \E text \in DiscountTexts : setDiscount(text)

Spec == Init /\ [][Next]_vars

---------------------------------------------------------------------------
(* The properties of the calculation *)

\* the texts of an amount that is missing, not a number, or negative
InvalidAmountTexts ==
    { <<>>, <<"a", "b", "c">>, <<"-", "1">>, <<"-", "0", ".", "5">> }

\* the texts that parseFloat reads as Infinity
InfiniteTexts == { <<"1", "e", "9", "9", "9">> }

HasResult == calculationResult # Null

RECURSIVE SumAmountInTier(_)
SumAmountInTier(breakdown) ==
    IF breakdown = <<>> THEN Fin(0)
    ELSE Add(Head(breakdown).amountInTier, SumAmountInTier(Tail(breakdown)))

\* C1 (conservation): whenever a result is returned, the amountInTier of the
\* breakdown lines add up to bidAmount and the loop was left with
\* remainingAmount = 0.
C1_Conservation ==
    HasResult =>
        /\ NumEq(SumAmountInTier(calculationResult.breakdown), calculationResult.bidAmount)
        /\ NumEq(loopExit.remainingAmount, Fin(0))

\* C1, for the finite amounts alone: the conservation that does hold.
C1_ConservationOfFinite ==
    (HasResult /\ isFinite(calculationResult.bidAmount)) =>
        /\ NumEq(SumAmountInTier(calculationResult.breakdown), calculationResult.bidAmount)
        /\ NumEq(loopExit.remainingAmount, Fin(0))

\* C2 (reference scenario): for Goods (serviceType 1) an amount of 6,000,000
\* yuan gives the three lines 1,000,000 at 1.50% = 15,000; 4,000,000 at
\* 1.10% = 44,000; 1,000,000 at 0.80% = 8,000, a fee of 67,000 and, with a
\* discount of 85, a discounted fee of 56,950.
C2_Reference ==
    (HasResult /\ serviceType = 1 /\ calculationResult.bidAmount = Fin(6000000)) =>
        /\ calculationResult.breakdown =
             << [tierLabel |-> "100wanyuan yixia",
                 ratePercent |-> <<"1", ".", "5", "0", "%">>,
                 amountInTier |-> Fin(1000000), feeForTier |-> Fin(15000)],
                [tierLabel |-> "100-500wanyuan",
                 ratePercent |-> <<"1", ".", "1", "0", "%">>,
                 amountInTier |-> Fin(4000000), feeForTier |-> Fin(44000)],
                [tierLabel |-> "500-1000wanyuan",
                 ratePercent |-> <<"0", ".", "8", "0", "%">>,
                 amountInTier |-> Fin(1000000), feeForTier |-> Fin(8000)] >>
        /\ calculationResult.originalTotalFee = Fin(67000)
        /\ discount = <<"8", "5">> => calculationResult.discountedFee = Fin(56950)

C2_Witness ==
    /\ HasResult
    /\ serviceType = 1
    /\ inputValue = <<"6", "0", "0">> /\ unit = "wanyuan"
    /\ calculationResult.bidAmount = Fin(6000000)
    /\ discount = <<"8", "5">>
    /\ calculationResult.discountedFee = Fin(56950)

\* C3 (invalid amount): an amount that is missing, not a number or negative
\* gives no result, whatever the category and the discount.
C3_InvalidAmount == inputValue \in InvalidAmountTexts => calculationResult = Null

C3_Witness ==
    /\ inputValue = <<"-", "1">>
    /\ serviceType = 3
    /\ discount = <<"-", "5">>
    /\ calculationResult = Null

\* C4 (non-finite amount): an amount that is not a finite number gives no
\* result, so the loop never runs on it.
C4_NonFiniteAmount ==
    ~isFinite(parseFloat(inputValue)) => calculationResult = Null /\ loopExit = Null

\* the texts of a discount that is not a number or is negative
FallbackDiscountTexts == { <<>>, <<"a", "b", "c">>, <<"-", "5">> }

\* C6 (discount fallback): with a valid amount, a discount that is negative
\* or not a number still gives a result, whose discountRate is 100 and whose
\* discountedFee equals originalTotalFee.
C6_DiscountFallback ==
    (discount \in FallbackDiscountTexts /\ inputValue \notin InvalidAmountTexts) =>
        /\ HasResult
        /\ calculationResult.discountRate = Fin(100)
        /\ NumEq(calculationResult.discountedFee, calculationResult.originalTotalFee)

C6_Witness ==
    /\ discount = <<"-", "5">>
    /\ HasResult
    /\ Gt(calculationResult.originalTotalFee, Fin(0))
    /\ calculationResult.discountRate = Fin(100)
    /\ calculationResult.discountedFee = calculationResult.originalTotalFee

\* C7 (non-finite discount): with a finite amount, a discount that is not a
\* finite number (NaN or an infinity) is replaced by 100, so that
\* discountedFee equals originalTotalFee and is finite.
C7_NonFiniteDiscount ==
    (HasResult /\ isFinite(calculationResult.bidAmount)
       /\ ~isFinite(parseFloat(discount))) =>
        /\ calculationResult.discountRate = Fin(100)
        /\ NumEq(calculationResult.discountedFee, calculationResult.originalTotalFee)
        /\ isFinite(calculationResult.discountedFee)

\* what C8 says of a result whose discount was read as the number d
Linear(d) ==
    /\ calculationResult.discountRate = d
    /\ NumEq(calculationResult.discountedFee,
             Scale(calculationResult.originalTotalFee, d, 100))
    /\ NumEq(d, Fin(100)) =>
         NumEq(calculationResult.discountedFee, calculationResult.originalTotalFee)
    /\ NumEq(d, Fin(0)) => NumEq(calculationResult.discountedFee, Fin(0))
    /\ (Gt(d, Fin(100)) /\ Gt(calculationResult.originalTotalFee, Fin(0))) =>
         Gt(calculationResult.discountedFee, calculationResult.originalTotalFee)

FiniteDiscount(d) == isFinite(d) /\ Ge(d, Fin(0))

\* C8 (discount linearity, no upper clamp): for every finite discount >= 0,
\* values above 100 included, discountRate is the discount unchanged and
\* discountedFee = originalTotalFee * (discountRate / 100); so discountedFee
\* equals originalTotalFee at 100, is 0 at 0, and exceeds originalTotalFee
\* above 100 when originalTotalFee > 0.
C8_DiscountLinearity ==
    (HasResult /\ FiniteDiscount(parseFloat(discount))) => Linear(parseFloat(discount))

\* C8, for the finite amounts alone: the linearity that does hold.
C8_LinearityOfFinite ==
    (HasResult /\ isFinite(calculationResult.bidAmount)
       /\ FiniteDiscount(parseFloat(discount))) => Linear(parseFloat(discount))

\* C9 (monotonicity): originalTotalFee is never negative, and when the amount
\* is replaced by one that is not smaller, the category staying the same,
\* originalTotalFee does not decrease.
C9_Monotonicity ==
    /\ [](HasResult => Ge(calculationResult.originalTotalFee, Fin(0)))
    /\ [][(/\ HasResult
           /\ calculationResult' # Null
           /\ serviceType' = serviceType
           /\ Le(calculationResult.bidAmount, calculationResult'.bidAmount))
          => Le(calculationResult.originalTotalFee,
                calculationResult'.originalTotalFee)]_vars

C9_Witness ==
    /\ HasResult
    /\ serviceType = 2
    /\ calculationResult.bidAmount = Fin(1000001)
    /\ Gt(calculationResult.originalTotalFee, Fin(15000))

\* the yuan between the limit of the k-th tier and the limit before it
SpanOf(k) ==
    TIERS_INIT[k].limit.y - (IF k = 1 THEN 0 ELSE TIERS_INIT[k - 1].limit.y)

\* the fee of the first k tiers taken in full, the rates in hundredths of a
\* percent
RECURSIVE BoundaryFee(_, _)
BoundaryFee(rates, k) ==
    IF k = 0 THEN 0
    ELSE BoundaryFee(rates, k - 1) + (SpanOf(k) \div (100 * 100)) * rates[k]

\* C10 (boundary allocation): when bidAmount is exactly the limit of the k-th
\* tier, the breakdown has exactly the lines of tiers 1..k, each with the
\* whole span of its tier, none for tier k+1, and originalTotalFee is the sum
\* of span * rate / 100 over tiers 1..k.
C10_BoundaryAllocation ==
    \A k \in 1..(Len(TIERS_INIT) - 1) :
        (HasResult /\ calculationResult.bidAmount = TIERS_INIT[k].limit) =>
            /\ Len(calculationResult.breakdown) = k
            /\ \A i \in 1..k :
                 /\ calculationResult.breakdown[i].tierLabel = TIERS_INIT[i].label
                 /\ calculationResult.breakdown[i].amountInTier = Fin(SpanOf(i))
            /\ calculationResult.originalTotalFee =
                 Fin(BoundaryFee(RATES_INIT[serviceType], k))

C10_Witness ==
    /\ HasResult
    /\ serviceType = 2
    /\ calculationResult.bidAmount = TIERS_INIT[6].limit
    /\ Len(calculationResult.breakdown) = 6

\* what C11 says of the result of an amount of 0
ZeroResult ==
    /\ HasResult
    /\ calculationResult.breakdown = <<>>
    /\ NumEq(calculationResult.originalTotalFee, Fin(0))
    /\ NumEq(calculationResult.discountedFee, Fin(0))

\* the amount typed is a number, and that number is 0
ZeroAmount == NumEq(parseFloat(inputValue), Fin(0))

\* the amount typed is a number above 0
PositiveAmount == Gt(parseFloat(inputValue), Fin(0))

\* C11 (zero case): for every category and every discount, an amount of 0
\* gives a result with an empty breakdown and with originalTotalFee and
\* discountedFee both 0; and an amount above 0 gives a result whose
\* breakdown is not empty.
C11_ZeroCase ==
    /\ ZeroAmount => ZeroResult
    /\ PositiveAmount => (HasResult /\ calculationResult.breakdown # <<>>)

\* C11, for the discounts that are not an infinity: the zero case that does
\* hold.
C11_ZeroCaseOfFiniteDiscount ==
    /\ (ZeroAmount /\ parseFloat(discount) # Infinity) => ZeroResult
    /\ PositiveAmount => (HasResult /\ calculationResult.breakdown # <<>>)

\* every category has one rate for each tier, and no rate is negative
RatesMatch(tiers, rates) ==
    /\ DOMAIN rates = ServiceTypes
    /\ \A type \in ServiceTypes :
         /\ Len(rates[type]) = Len(tiers)
         /\ \A i \in 1..Len(rates[type]) : rates[type][i] >= 0

\* the limits rise strictly, and the last tier alone has no limit
TiersAscend(tiers) ==
    /\ Len(tiers) > 0
    /\ \A j \in 1..(Len(tiers) - 1) : Lt(tiers[j].limit, tiers[j + 1].limit)
    /\ \A j \in 1..Len(tiers) : (tiers[j].limit = Infinity) <=> (j = Len(tiers))

\* C12 (rate schedule invariant): in every reachable state TIERS and RATES
\* are what they were at the start; every category has as many rates as
\* there are tiers, no rate is negative, the limits are strictly increasing,
\* and exactly one tier, the last, is unbounded.
C12_ScheduleInvariant ==
    /\ TIERS = TIERS_INIT
    /\ RATES = RATES_INIT
    /\ RatesMatch(TIERS, RATES)
    /\ TiersAscend(TIERS)

C12_Witness ==
    /\ HasResult
    /\ serviceType = 3
    /\ discount = <<"8", "0">>
    /\ Len(calculationResult.breakdown) = Len(TIERS_INIT)
    /\ TIERS = TIERS_INIT
    /\ RATES = RATES_INIT

\* the i-th line of the breakdown is the line of the i-th tier: its label,
\* its rate as printed, part of the amount, and the fee of that part at the
\* rate of that tier
LineOfTier(i) ==
    /\ calculationResult.breakdown[i].tierLabel = TIERS[i].label
    /\ calculationResult.breakdown[i].ratePercent =
         toFixed2(RATES[serviceType][i]) \o <<"%">>
    /\ Gt(calculationResult.breakdown[i].amountInTier, Fin(0))
    /\ NumEq(calculationResult.breakdown[i].feeForTier,
             Scale(calculationResult.breakdown[i].amountInTier,
                   Fin(RATES[serviceType][i]), 100 * 100))

\* the loop was left by its break at the first tier without a line (the
\* second tier when there is no line at all), or ran to the end of the table
\* when every tier has a line
StoppedAfter(lines) ==
    IF lines < Len(TIERS)
    THEN loopExit.broke /\ loopExit.i = (IF lines = 0 THEN 1 ELSE lines)
    ELSE ~loopExit.broke /\ loopExit.i = Len(TIERS)

\* C13 (breakdown shape): for every accepted amount the breakdown lists the
\* tiers from the first on, in order and without a gap; every line has
\* amountInTier > 0; every line but the last holds the whole span of its
\* tier; each feeForTier is amountInTier * rate / 100 at the rate of the
\* line's own tier; and the loop stops at the first tier after the amount is
\* used up.
C13_BreakdownShape ==
    HasResult =>
        /\ Len(calculationResult.breakdown) <= Len(TIERS)
        /\ \A i \in 1..Len(calculationResult.breakdown) : LineOfTier(i)
        /\ \A i \in 1..(Len(calculationResult.breakdown) - 1) :
             calculationResult.breakdown[i].amountInTier = Fin(SpanOf(i))
        /\ StoppedAfter(Len(calculationResult.breakdown))

C13_Witness ==
    /\ HasResult
    /\ serviceType = 3
    /\ calculationResult.bidAmount = Fin(5000001)
    /\ Len(calculationResult.breakdown) = 3
    /\ calculationResult.breakdown[3].amountInTier = Fin(1)
    /\ loopExit.broke
    /\ loopExit.i = 3

=============================================================================
